---- MODULE Spec2Model ----
(***************************************************************************)
(* Model of the text-generation pipeline of deepsparse                     *)
(* (src/deepsparse/transformers/pipelines/text_generation.py): pipeline    *)
(* construction, the two engines and their kv-cache session stores, the    *)
(* prompt prefill, the token generation loop and the final cache call.     *)
(***************************************************************************)
EXTENDS Integers, Sequences, FiniteSets, TLC

VARIABLES
    cfg,                \* constructor arguments and model properties
    pc,                 \* position of the pipeline / of engine_forward
    init_result,        \* outcome of __init__: "none", "ok", "ValueError", "TypeError"
    engine,             \* self.engine is not None
    multitoken_engine,  \* self.multitoken_engine is not None
    kv_cache_storage,   \* [engine name -> [session id -> cache entry]]
    session_id,         \* session id of the running request
    req,                \* per-request arguments (prompt length, streamer, include_prompt_logits)
    tokens,             \* the running context
    num_tokens_processed,
    prompt_logits,
    new_token,
    run_tokens,         \* the tokens handed to the single-token engine during prefill
    generated_tokens,
    generated_logits,
    streamed,           \* what streamer.put received, in order
    stream_ended,       \* number of streamer.end() calls
    trace,              \* engine calls and synchronizations of the running request
    error,              \* exception raised by the running request, "none" if none
    requests,           \* number of requests served so far
    bpc,                \* position of a batched request: validation, split, workers, join
    inputs,             \* the TextGenerationInput: sequences and session_ids as supplied
    batch_size,         \* the pipeline's batch size, handed to split_engine_inputs
    validated,          \* inputs.session_ids as the validator leaves it
    session_ids,        \* the session ids process_inputs appends to the engine inputs
    batches,            \* the sub-batches split_engine_inputs returns
    orig_batch_size,    \* the batch size split_engine_inputs returns
    batch_outputs,      \* the result of engine_forward for each sub-batch, once it completed
    completed,          \* the sub-batches in the order their workers finished
    joined,             \* the result of join_engine_outputs
    mpc,                \* position of a create_causal_mask call
    mask_args,          \* the arguments of create_causal_mask
    causal_mask,        \* what create_causal_mask returned
    ipc,                \* position of the construction of one engine input list
    onnx_input_names_no_cache,  \* the input names the target engine declares, in order
    engine_inputs       \* the list built for the engine call

pvars == <<cfg, pc, init_result, engine, multitoken_engine, kv_cache_storage,
           session_id, req, tokens, num_tokens_processed, prompt_logits,
           new_token, run_tokens, generated_tokens, generated_logits, streamed,
           stream_ended, trace, error, requests>>

bvars == <<bpc, inputs, batch_size, validated, session_ids, batches,
           orig_batch_size, batch_outputs, completed, joined>>

mvars == <<mpc, mask_args, causal_mask>>

ivars == <<ipc, onnx_input_names_no_cache, engine_inputs>>

vars == <<pvars, bvars, mvars, ivars>>

----------------------------------------------------------------------------
(* Bounds of the model *)

\* longest prompt, in tokens
MaxPrompt == 3
\* requests served by one pipeline
MaxRequests == 2
\* cap on the iterations of the generation loop explored
MaxSteps == 3
\* largest sequence_length / prompt_processing_sequence_length
MaxSeqLen == 3
\* largest max_generated_tokens
MaxBudget == 2
\* most sequences in one request
MaxBatch == 4
\* most generation steps of one engine_forward
MaxOutLen == 2

Sessions == {"s1", "s2"}
Engines == {"engine", "multitoken_engine"}
DEEPSPARSE_ENGINE == "deepsparse"
ORT_ENGINE == "onnxruntime"

\* Optional[int]: None is <<>>, an int m is <<m>>
None == <<>>
Some(m) == <<m>>

BOS == 1
EOS == 2
\* new_token = None
NoToken == 0
PromptTokens == [i \in 1..MaxPrompt |-> IF i = 1 THEN BOS ELSE 10 + i]
Prompt(n) == SubSeq(PromptTokens, 1, n)

Min(a, b) == IF a < b THEN a ELSE b
Last(s) == s[Len(s)]
Other(e) == IF e = "engine" THEN "multitoken_engine" ELSE "engine"

----------------------------------------------------------------------------
(* Session stores of the two engines *)

MinusInf == -1
Absent(sid) == [id |-> sid, present |-> FALSE, timestamp |-> MinusInf, rows |-> 0]

Get(store, e, sid) == store[e][sid]
HasSession(store, e, sid) == store[e][sid].present
NumNonBlankCacheEntries(store, e, sid) == store[e][sid].rows

\* transfer: replace the store's entry when the given entry is not older
TransferCacheSession(store, e, entry) ==
    IF entry.present /\ entry.timestamp >= store[e][entry.id].timestamp
    THEN [store EXCEPT ![e][entry.id] = entry]
    ELSE store

\* an engine invocation over L new tokens writes the session's entry
EngineWrite(store, e, sid, L) ==
    [store EXCEPT ![e][sid] =
        [id |-> sid, present |-> TRUE,
         timestamp |-> IF store[e][sid].present THEN store[e][sid].timestamp + 1 ELSE 1,
         rows |-> Min(store[e][sid].rows + L, cfg.sequence_length)]]

----------------------------------------------------------------------------
(* synchronize_engines *)

\* variant: the timestamp comparison is reversed
synchronize_engines_reversed(store, sid) ==
    LET engine_session == Get(store, "engine", sid)
        multitoken_session == Get(store, "multitoken_engine", sid)
        s1 == IF engine_session.timestamp < multitoken_session.timestamp
              THEN TransferCacheSession(store, "multitoken_engine", engine_session)
              ELSE store
    IN  TransferCacheSession(s1, "engine", multitoken_session)

\* variant: the multitoken session is never handed to the single-token engine
synchronize_engines_one_way(store, sid) ==
    LET engine_session == Get(store, "engine", sid)
        multitoken_session == Get(store, "multitoken_engine", sid)
    IN  IF engine_session.timestamp > multitoken_session.timestamp
        THEN TransferCacheSession(store, "multitoken_engine", engine_session)
        ELSE store

\* variant: the multitoken session is put into the single-token engine's
\* store directly, without the transfer's timestamp guard
synchronize_engines_put(store, sid) ==
    LET engine_session == Get(store, "engine", sid)
        multitoken_session == Get(store, "multitoken_engine", sid)
        s1 == IF engine_session.timestamp > multitoken_session.timestamp
              THEN TransferCacheSession(store, "multitoken_engine", engine_session)
              ELSE store
    IN  [s1 EXCEPT !["engine"][sid] = multitoken_session]

\* variant: a session seen for the first time is created in the single-token
\* engine's store
synchronize_engines_create(store, sid) ==
    LET engine_session == Get(store, "engine", sid)
        multitoken_session == Get(store, "multitoken_engine", sid)
        s1 == IF engine_session.timestamp > multitoken_session.timestamp
              THEN TransferCacheSession(store, "multitoken_engine", engine_session)
              ELSE store
    IN  IF ~engine_session.present /\ ~multitoken_session.present
        THEN [store EXCEPT !["engine"][sid] =
                 [id |-> sid, present |-> TRUE, timestamp |-> 0, rows |-> 0]]
        ELSE TransferCacheSession(s1, "engine", multitoken_session)

synchronize_engines(store, sid) ==
    LET engine_session == Get(store, "engine", sid)
        multitoken_session == Get(store, "multitoken_engine", sid)
        s1 == IF engine_session.timestamp > multitoken_session.timestamp
              THEN TransferCacheSession(store, "multitoken_engine", engine_session)
              ELSE store
    IN  TransferCacheSession(s1, "engine", multitoken_session)

\* the transfer replaces the store's entry
TransferReplaces(store, e, entry) ==
    entry.present /\ entry.timestamp >= store[e][entry.id].timestamp

\* the stores whose entry a synchronize_engines call replaces, in order
SyncWrites(store, sid) ==
    LET engine_session == Get(store, "engine", sid)
        multitoken_session == Get(store, "multitoken_engine", sid)
        first == engine_session.timestamp > multitoken_session.timestamp
                 /\ TransferReplaces(store, "multitoken_engine", engine_session)
        s1 == IF engine_session.timestamp > multitoken_session.timestamp
              THEN TransferCacheSession(store, "multitoken_engine", engine_session)
              ELSE store
    IN  (IF first THEN <<"multitoken_engine">> ELSE <<>>)
        \o (IF TransferReplaces(s1, "engine", multitoken_session)
            THEN <<"engine">> ELSE <<>>)

\* the first token is dropped when the tokenizer has an attribute
\* add_bos_token (None: no such attribute), whatever its value
_remove_bos_token_if_applicable(toks) ==
    IF cfg.add_bos_token # None THEN Tail(toks) ELSE toks

\* trace entries: a completed synchronization, with the entries before and after
SyncEvent(before, after) ==
    [kind |-> "sync", eng |-> "none", ids |-> <<>>, phase |-> "prefill",
     pre_engine |-> before["engine"][session_id],
     pre_multitoken |-> before["multitoken_engine"][session_id],
     post_engine |-> after["engine"][session_id],
     post_multitoken |-> after["multitoken_engine"][session_id],
     writes |-> SyncWrites(before, session_id)]
\* attention_mask of autoregressive_inference: ones from the right, capped by
\* the sequence length
AutoregressiveMask(num_cached_entries) ==
    LET num == Min(num_cached_entries + 1, cfg.sequence_length)
    IN  [i \in 1..cfg.sequence_length |->
            IF i > cfg.sequence_length - num THEN 1 ELSE 0]
\* positions of autoregressive_inference
AutoregressivePositions(num_cached_entries) == <<(num_cached_entries + 1) - 1>>

\* attention_mask of engine_inputs_for_prefill: the slice
\* [-(chunk + num_cached_entries):] of a zero row is set to 1 (a start before
\* the first column selects the whole row)
PrefillMask(num_cached_entries) ==
    [i \in 1..cfg.sequence_length |->
        IF i > cfg.sequence_length
                 - (cfg.prompt_processing_sequence_length + num_cached_entries)
        THEN 1 ELSE 0]
\* positions of engine_inputs_for_prefill for the chunk of index idx
PrefillPositions(idx, num_cached_entries) ==
    IF cfg.prompt_processing_sequence_length = 1
    THEN <<idx>>
    ELSE [j \in 1..cfg.prompt_processing_sequence_length |->
              num_cached_entries + j - 1]

\* the items of the list engine_forward receives: the tensors of the
\* sub-batch and the session id split_engine_inputs attached
ReceivedInputs == <<"input_ids", "attention_mask", "session_id">>
\* engine_forward pops the string item only when the cache is supported
PoppedInputs ==
    IF cfg.cache_support_enabled
    THEN SelectSeq(ReceivedInputs, LAMBDA item : item # "session_id")
    ELSE ReceivedInputs
\* the list handed to the engine: without the cache engine_inputs as it is,
\* with it the arrays built for the call
CallInputs(phase) ==
    IF phase = "nocache" THEN PoppedInputs
    ELSE <<"input_ids", "attention_mask", "positions", "causal_mask">>

\* an engine call, with the timestamps of the two stores when it is made, the
\* cache rows read for it, the attention mask and positions built for it and
\* the items of the list it receives
CallEvent(e, ids, phase, store) ==
    LET cached == NumNonBlankCacheEntries(store, e, session_id)
    IN  [kind |-> "call", eng |-> e, ids |-> ids, phase |-> phase,
         ts_self |-> store[e][session_id].timestamp,
         ts_other |-> store[Other(e)][session_id].timestamp,
         cached |-> cached,
         engine_inputs |-> CallInputs(phase),
         attention_mask |->
            IF phase = "nocache" THEN [i \in 1..Len(ids) |-> 1]
            ELSE IF e = "engine" THEN AutoregressiveMask(cached)
            ELSE PrefillMask(cached),
         positions |->
            IF phase = "nocache" THEN [i \in 1..Len(ids) |-> i - 1]
            ELSE IF e = "engine" THEN AutoregressivePositions(cached)
            ELSE PrefillPositions(
                    num_tokens_processed \div cfg.prompt_processing_sequence_length,
                    cached)]

\* the token an engine returns: EOS or a token naming the call that made it
EngineTokens == {EOS, 20 + Len(trace)}
Logits == Len(trace) + 1

----------------------------------------------------------------------------
(* __init__ and initialize_engines *)

CfgSpace ==
    [cache_support_enabled : BOOLEAN,
     enable_multitoken_prefill : BOOLEAN,
     engine_type : {DEEPSPARSE_ENGINE, ORT_ENGINE},
     max_generated_tokens : {None} \cup {Some(m) : m \in 0..MaxBudget},
     prompt_processing_sequence_length : 1..MaxSeqLen,
     sequence_length : 2..MaxSeqLen,
     force_max_tokens : BOOLEAN,
     add_bos_token : {None, Some(FALSE), Some(TRUE)}]

\* variant: the chunk-size check uses a strict comparison
InitResult_strict(c) ==
    IF ~c.cache_support_enabled /\ c.max_generated_tokens = None
    THEN "TypeError"
    ELSE IF ~c.cache_support_enabled /\ c.max_generated_tokens[1] > 1
    THEN "ValueError"
    ELSE IF c.cache_support_enabled
            /\ c.engine_type = DEEPSPARSE_ENGINE
            /\ c.sequence_length < c.prompt_processing_sequence_length
            /\ c.enable_multitoken_prefill
    THEN "ValueError"
    ELSE "ok"

\* __init__ (187-192) followed by the check of initialize_engines (232-245);
\* `None > 1` raises TypeError
InitResult(c) ==
    IF ~c.cache_support_enabled /\ c.max_generated_tokens = None
    THEN "TypeError"
    ELSE IF ~c.cache_support_enabled /\ c.max_generated_tokens[1] > 1
    THEN "ValueError"
    ELSE IF c.cache_support_enabled
            /\ c.engine_type = DEEPSPARSE_ENGINE
            /\ c.sequence_length <= c.prompt_processing_sequence_length
            /\ c.enable_multitoken_prefill
    THEN "ValueError"
    ELSE "ok"

Construct ==
    /\ pc = "new"
    /\ init_result' = InitResult(cfg)
    /\ IF InitResult(cfg) = "ok"
       THEN /\ pc' = "idle"
            /\ multitoken_engine' =
                 ((cfg.cache_support_enabled /\ cfg.enable_multitoken_prefill)
                    \/ ~cfg.cache_support_enabled)
            /\ engine' = cfg.cache_support_enabled
       ELSE /\ pc' = "rejected"
            /\ UNCHANGED <<engine, multitoken_engine>>
    /\ UNCHANGED <<cfg, kv_cache_storage, session_id, req, tokens,
                   num_tokens_processed, prompt_logits, new_token, run_tokens,
                   generated_tokens, generated_logits, streamed, stream_ended,
                   trace, error, requests>>
    /\ UNCHANGED <<bvars, mvars, ivars>>

----------------------------------------------------------------------------
(* A batched request: the values that travel through split and join *)

\* session ids a caller may supply
SessionIdPool == 1..MaxBatch
\* the session id engine_forward returns when the cache is disabled (None)
NoSession == 0
\* Optional[Union[str, List[str]]]: None, one string, or a list of strings
NoIds == [kind |-> "none", val |-> <<>>]
StrId(x) == [kind |-> "str", val |-> <<x>>]
ListIds(l) == [kind |-> "list", val |-> l]

IdLists == UNION {[1..m -> SessionIdPool] : m \in 0..MaxBatch}
IdsSpace == {NoIds} \cup {StrId(x) : x \in SessionIdPool}
                    \cup {ListIds(l) : l \in IdLists}

\* sequences is one string (seq_list = FALSE, nseq = 1) or a list of nseq strings
InputSpace ==
    {i \in [seq_list : BOOLEAN, nseq : 1..MaxBatch, session_ids : IdsSpace] :
        ~i.seq_list => i.nseq = 1}

\* a worker that has not returned yet
Pending == [done |-> FALSE, tokens |-> <<>>, logits |-> <<>>, session_ids |-> <<>>]
NoJoin == [tokens |-> <<>>, logits |-> <<>>, session_ids |-> <<>>]

\* no create_causal_mask call is under way
NoMask == [shape |-> <<>>, mask |-> <<>>]
MaskIdle ==
    /\ mpc = "off"
    /\ mask_args = [input_ids_length |-> 1, attention_mask |-> <<<<1>>>>]
    /\ causal_mask = NoMask

\* no engine input list is being built
NoInputs == [raised |-> "none", tensors |-> <<>>]
InputsIdle ==
    /\ ipc = "off"
    /\ onnx_input_names_no_cache = <<"input_ids">>
    /\ engine_inputs = NoInputs

BatchIdle ==
    /\ bpc = "off"
    /\ inputs = [seq_list |-> FALSE, nseq |-> 1, session_ids |-> NoIds]
    /\ batch_size = 1
    /\ validated = NoIds
    /\ session_ids = <<>>
    /\ batches = <<>>
    /\ orig_batch_size = 0
    /\ batch_outputs = <<>>
    /\ completed = <<>>
    /\ joined = NoJoin

Init ==
    /\ cfg \in CfgSpace
    /\ pc = "new"
    /\ init_result = "none"
    /\ engine = FALSE
    /\ multitoken_engine = FALSE
    /\ kv_cache_storage = [e \in Engines |-> [s \in Sessions |-> Absent(s)]]
    /\ session_id = "s1"
    /\ req = [n |-> 1, streamer |-> FALSE, include_prompt_logits |-> FALSE]
    /\ tokens = <<>>
    /\ num_tokens_processed = 0
    /\ prompt_logits = <<>>
    /\ new_token = NoToken
    /\ run_tokens = <<>>
    /\ generated_tokens = <<>>
    /\ generated_logits = <<>>
    /\ streamed = <<>>
    /\ stream_ended = 0
    /\ trace = <<>>
    /\ error = "none"
    /\ requests = 0
    /\ BatchIdle
    /\ MaskIdle
    /\ InputsIdle

----------------------------------------------------------------------------
(* A request arrives at engine_forward *)

ReqSpace == [n : 1..MaxPrompt, streamer : BOOLEAN, include_prompt_logits : BOOLEAN]

Request ==
    /\ pc = "idle"
    /\ requests < MaxRequests
    /\ \E sid \in Sessions, r \in ReqSpace :
         /\ session_id' = sid
         /\ req' = r
    /\ pc' = IF cfg.cache_support_enabled THEN "prefill" ELSE "nocache"
    /\ tokens' = <<>>
    /\ num_tokens_processed' = 0
    /\ prompt_logits' = <<>>
    /\ new_token' = NoToken
    /\ run_tokens' = <<>>
    /\ generated_tokens' = <<>>
    /\ generated_logits' = <<>>
    /\ streamed' = <<>>
    /\ stream_ended' = 0
    /\ trace' = <<>>
    /\ error' = "none"
    /\ UNCHANGED <<cfg, init_result, engine, multitoken_engine,
                   kv_cache_storage, requests>>
    /\ UNCHANGED <<bvars, mvars, ivars>>

\* variant: the no-cache branch does not return and falls into the generation loop
ForwardNoCache_no_return ==
    /\ pc = "nocache"
    /\ \E tok \in EngineTokens :
         /\ generated_tokens' = <<tok>>
         /\ new_token' = tok
         /\ tokens' = Append(Prompt(req.n), tok)
    /\ generated_logits' = <<Logits>>
    /\ trace' = Append(trace, CallEvent("multitoken_engine", Prompt(req.n),
                                        "nocache", kv_cache_storage))
    /\ pc' = "generate"
    /\ UNCHANGED <<cfg, init_result, engine, multitoken_engine,
                   kv_cache_storage, session_id, req,
                   num_tokens_processed, prompt_logits, run_tokens, streamed,
                   stream_ended, error, requests>>
    /\ UNCHANGED <<bvars, mvars, ivars>>

\* engine_forward without kv cache support: one pass of the multitoken engine
ForwardNoCache ==
    /\ pc = "nocache"
    /\ \E tok \in EngineTokens :
         /\ generated_tokens' = <<tok>>
         /\ new_token' = tok
    /\ generated_logits' = <<Logits>>
    /\ trace' = Append(trace, CallEvent("multitoken_engine", Prompt(req.n),
                                        "nocache", kv_cache_storage))
    /\ pc' = "done"
    /\ UNCHANGED <<cfg, init_result, engine, multitoken_engine,
                   kv_cache_storage, session_id, req, tokens,
                   num_tokens_processed, prompt_logits, run_tokens, streamed,
                   stream_ended, error, requests>>
    /\ UNCHANGED <<bvars, mvars, ivars>>

----------------------------------------------------------------------------
(* prompt_inference *)

C == cfg.prompt_processing_sequence_length

\* first part of prompt_inference: the multitoken branch is entered or skipped
PrefillStart ==
    /\ pc = "prefill"
    /\ LET toks == Prompt(req.n)
       IN  IF Len(toks) > C /\ cfg.enable_multitoken_prefill
           THEN LET store == synchronize_engines(kv_cache_storage, session_id)
                    stripped == IF HasSession(store, "multitoken_engine", session_id)
                                THEN _remove_bos_token_if_applicable(toks)
                                ELSE toks
                IN  /\ kv_cache_storage' = store
                    /\ tokens' = stripped
                    /\ trace' = Append(trace, SyncEvent(kv_cache_storage, store))
                    /\ pc' = IF Len(stripped) \div C > 0 THEN "chunks" ELSE "prefill_sync"
           ELSE /\ tokens' = toks
                /\ pc' = "prefill_sync"
                /\ UNCHANGED <<kv_cache_storage, trace>>
    /\ UNCHANGED <<cfg, init_result, engine, multitoken_engine, session_id, req,
                   num_tokens_processed, prompt_logits, new_token, run_tokens,
                   generated_tokens, generated_logits, streamed, stream_ended,
                   error, requests>>
    /\ UNCHANGED <<bvars, mvars, ivars>>

\* engine_inputs_for_prefill: the chunks the generator yields
num_batches(toks) == Len(toks) \div C
token_batch(toks, idx) == SubSeq(toks, idx * C + 1, (idx + 1) * C)

\* variant: the cache rows of every chunk are those read before the first chunk
ChunkStep_eager ==
    /\ pc = "chunks"
    /\ LET idx == num_tokens_processed \div C
       IN  /\ idx < num_batches(tokens)
           /\ trace' = Append(trace, CallEvent("multitoken_engine",
                                   token_batch(tokens, idx), "prefill",
                                   [kv_cache_storage EXCEPT
                                      !["multitoken_engine"][session_id].rows =
                                          @ - Min(@, idx * C)]))
           /\ kv_cache_storage' =
                 EngineWrite(kv_cache_storage, "multitoken_engine", session_id, C)
           /\ \E tok \in EngineTokens : new_token' = tok
           /\ num_tokens_processed' = num_tokens_processed + C
           /\ prompt_logits' = Append(prompt_logits, Logits)
           /\ pc' = IF idx + 1 < num_batches(tokens) THEN "chunks" ELSE "prefill_sync"
    /\ UNCHANGED <<cfg, init_result, engine, multitoken_engine, session_id, req,
                   tokens, run_tokens, generated_tokens, generated_logits,
                   streamed, stream_ended, error, requests>>
    /\ UNCHANGED <<bvars, mvars, ivars>>

\* one iteration of the loop over engine_inputs_for_prefill
ChunkStep ==
    /\ pc = "chunks"
    /\ LET idx == num_tokens_processed \div C
       IN  /\ idx < num_batches(tokens)
           /\ trace' = Append(trace, CallEvent("multitoken_engine",
                                   token_batch(tokens, idx), "prefill",
                                   kv_cache_storage))
           /\ kv_cache_storage' =
                 EngineWrite(kv_cache_storage, "multitoken_engine", session_id, C)
           /\ \E tok \in EngineTokens : new_token' = tok
           /\ num_tokens_processed' = num_tokens_processed + C
           /\ prompt_logits' = Append(prompt_logits, Logits)
           /\ pc' = IF idx + 1 < num_batches(tokens) THEN "chunks" ELSE "prefill_sync"
    /\ UNCHANGED <<cfg, init_result, engine, multitoken_engine, session_id, req,
                   tokens, run_tokens, generated_tokens, generated_logits,
                   streamed, stream_ended, error, requests>>
    /\ UNCHANGED <<bvars, mvars, ivars>>

\* second synchronization, before the single-token part of the prefill
PrefillSync ==
    /\ pc = "prefill_sync"
    /\ IF ~multitoken_engine
       THEN \* self.multitoken_engine is None: attribute access raises
            /\ pc' = "error"
            /\ error' = "AttributeError"
            /\ UNCHANGED <<kv_cache_storage, tokens, run_tokens, trace>>
       ELSE LET store == synchronize_engines(kv_cache_storage, session_id)
            IN  /\ kv_cache_storage' = store
                /\ run_tokens' = IF num_tokens_processed = 0 THEN <<>>
                                 ELSE SubSeq(tokens, 1, num_tokens_processed)
                /\ tokens' = IF HasSession(store, "engine", session_id)
                                /\ num_tokens_processed = 0
                             THEN _remove_bos_token_if_applicable(tokens)
                             ELSE tokens
                /\ trace' = Append(trace, SyncEvent(kv_cache_storage, store))
                /\ pc' = "single"
                /\ UNCHANGED error
    /\ UNCHANGED <<cfg, init_result, engine, multitoken_engine, session_id, req,
                   num_tokens_processed, prompt_logits, new_token,
                   generated_tokens, generated_logits, streamed, stream_ended,
                   requests>>
    /\ UNCHANGED <<bvars, mvars, ivars>>

\* variant: the slice starts one token too far
remaining_tokens_skip(toks, processed) == SubSeq(toks, processed + 2, Len(toks))

\* tokens[num_tokens_processed:], the tokens left to the single-token engine
remaining_tokens(toks, processed) == SubSeq(toks, processed + 1, Len(toks))

\* one iteration of the loop over tokens[num_tokens_processed:]
SingleStep ==
    /\ pc = "single"
    /\ Len(run_tokens) - num_tokens_processed
         < Len(remaining_tokens(tokens, num_tokens_processed))
    /\ LET token == remaining_tokens(tokens, num_tokens_processed)
                        [Len(run_tokens) - num_tokens_processed + 1]
       IN  /\ run_tokens' = Append(run_tokens, token)
           /\ trace' = Append(trace, CallEvent("engine", <<token>>, "prefill",
                                              kv_cache_storage))
    /\ kv_cache_storage' = EngineWrite(kv_cache_storage, "engine", session_id, 1)
    /\ \E tok \in EngineTokens : new_token' = tok
    /\ prompt_logits' = Append(prompt_logits, Logits)
    /\ UNCHANGED <<cfg, pc, init_result, engine, multitoken_engine, session_id,
                   req, tokens, num_tokens_processed, generated_tokens,
                   generated_logits, streamed, stream_ended, error, requests>>
    /\ UNCHANGED <<bvars, mvars, ivars>>

\* variant: the prompt logits are returned whether asked for or not
PrefillEnd_with_prompt_logits ==
    /\ pc = "single"
    /\ ~(Len(run_tokens) - num_tokens_processed
           < Len(remaining_tokens(tokens, num_tokens_processed)))
    /\ tokens' = Append(tokens, new_token)
    /\ streamed' = IF req.streamer THEN Append(streamed, tokens') ELSE streamed
    /\ generated_tokens' = <<new_token>>
    /\ generated_logits' = prompt_logits
    /\ pc' = "generate"
    /\ UNCHANGED <<cfg, init_result, engine, multitoken_engine,
                   kv_cache_storage, session_id, req, num_tokens_processed,
                   prompt_logits, new_token, run_tokens, stream_ended, trace,
                   error, requests>>
    /\ UNCHANGED <<bvars, mvars, ivars>>

\* end of prompt_inference and the set-up of the generation loop
PrefillEnd ==
    /\ pc = "single"
    /\ ~(Len(run_tokens) - num_tokens_processed
           < Len(remaining_tokens(tokens, num_tokens_processed)))
    /\ tokens' = Append(tokens, new_token)
    /\ streamed' = IF req.streamer THEN Append(streamed, tokens') ELSE streamed
    /\ generated_tokens' = <<new_token>>
    /\ generated_logits' = IF req.include_prompt_logits THEN prompt_logits ELSE <<>>
    /\ pc' = "generate"
    /\ UNCHANGED <<cfg, init_result, engine, multitoken_engine,
                   kv_cache_storage, session_id, req, num_tokens_processed,
                   prompt_logits, new_token, run_tokens, stream_ended, trace,
                   error, requests>>
    /\ UNCHANGED <<bvars, mvars, ivars>>

----------------------------------------------------------------------------
(* the generation loop of engine_forward *)

\* variant: the loop is allowed one token more than the maximum
max_tokens_plus ==
    IF cfg.max_generated_tokens # None /\ cfg.max_generated_tokens[1] # 0
       /\ cfg.max_generated_tokens[1] > 0
    THEN cfg.max_generated_tokens[1] + 1
    ELSE 100 * cfg.sequence_length

max_tokens ==
    IF cfg.max_generated_tokens # None /\ cfg.max_generated_tokens[1] # 0
       /\ cfg.max_generated_tokens[1] > 0
    THEN cfg.max_generated_tokens[1]
    ELSE 100 * cfg.sequence_length

\* variant: every step of the loop runs on the first generated token
GenerateStep_first_token ==
    /\ pc = "generate"
    /\ Len(generated_tokens) <= max_tokens
    /\ Len(generated_tokens) <= MaxSteps
    /\ trace' = Append(trace, CallEvent("engine", <<generated_tokens[1]>>, "generate",
                                       kv_cache_storage))
    /\ kv_cache_storage' = EngineWrite(kv_cache_storage, "engine", session_id, 1)
    /\ \E token \in EngineTokens :
         /\ tokens' = Append(tokens, token)
         /\ generated_tokens' = Append(generated_tokens, token)
         /\ streamed' = IF req.streamer THEN Append(streamed, <<token>>) ELSE streamed
         /\ pc' = IF token = EOS /\ ~cfg.force_max_tokens THEN "final" ELSE "generate"
    /\ generated_logits' = Append(generated_logits, Logits)
    /\ UNCHANGED <<cfg, init_result, engine, multitoken_engine, session_id, req,
                   num_tokens_processed, prompt_logits, new_token, run_tokens,
                   stream_ended, error, requests>>
    /\ UNCHANGED <<bvars, mvars, ivars>>

GenerateStep ==
    /\ pc = "generate"
    /\ Len(generated_tokens) <= max_tokens
    /\ Len(generated_tokens) <= MaxSteps
    /\ trace' = Append(trace, CallEvent("engine", <<Last(tokens)>>, "generate",
                                       kv_cache_storage))
    /\ kv_cache_storage' = EngineWrite(kv_cache_storage, "engine", session_id, 1)
    /\ \E token \in EngineTokens :
         /\ tokens' = Append(tokens, token)
         /\ generated_tokens' = Append(generated_tokens, token)
         /\ streamed' = IF req.streamer THEN Append(streamed, <<token>>) ELSE streamed
         /\ pc' = IF token = EOS /\ ~cfg.force_max_tokens THEN "final" ELSE "generate"
    /\ generated_logits' = Append(generated_logits, Logits)
    /\ UNCHANGED <<cfg, init_result, engine, multitoken_engine, session_id, req,
                   num_tokens_processed, prompt_logits, new_token, run_tokens,
                   stream_ended, error, requests>>
    /\ UNCHANGED <<bvars, mvars, ivars>>

GenerateExit ==
    /\ pc = "generate"
    /\ ~(Len(generated_tokens) <= max_tokens)
    /\ pc' = "final"
    /\ UNCHANGED <<cfg, init_result, engine, multitoken_engine,
                   kv_cache_storage, session_id, req, tokens,
                   num_tokens_processed, prompt_logits, new_token, run_tokens,
                   generated_tokens, generated_logits, streamed, stream_ended,
                   trace, error, requests>>
    /\ UNCHANGED <<bvars, mvars, ivars>>

\* variant: the result of the last inference run is kept as a generated token
FinalStep_keep ==
    /\ pc = "final"
    /\ trace' = Append(trace, CallEvent("engine", <<Last(tokens)>>, "final",
                                       kv_cache_storage))
    /\ kv_cache_storage' = EngineWrite(kv_cache_storage, "engine", session_id, 1)
    /\ stream_ended' = IF req.streamer THEN stream_ended + 1 ELSE stream_ended
    /\ \E token \in EngineTokens :
         /\ tokens' = Append(tokens, token)
         /\ generated_tokens' = Append(generated_tokens, token)
    /\ pc' = "done"
    /\ UNCHANGED <<cfg, init_result, engine, multitoken_engine, session_id, req,
                   num_tokens_processed, prompt_logits, new_token,
                   run_tokens, generated_logits, streamed,
                   error, requests>>
    /\ UNCHANGED <<bvars, mvars, ivars>>

\* variant: the last inference run is made on the multitoken engine
FinalStep_multitoken ==
    /\ pc = "final"
    /\ trace' = Append(trace, CallEvent("multitoken_engine", <<Last(tokens)>>, "final",
                                       kv_cache_storage))
    /\ kv_cache_storage' = EngineWrite(kv_cache_storage, "multitoken_engine", session_id, 1)
    /\ stream_ended' = IF req.streamer THEN stream_ended + 1 ELSE stream_ended
    /\ pc' = "done"
    /\ UNCHANGED <<cfg, init_result, engine, multitoken_engine, session_id, req,
                   tokens, num_tokens_processed, prompt_logits, new_token,
                   run_tokens, generated_tokens, generated_logits, streamed,
                   error, requests>>
    /\ UNCHANGED <<bvars, mvars, ivars>>

\* the inference run that creates the cache entry of the last generated token
FinalStep ==
    /\ pc = "final"
    /\ trace' = Append(trace, CallEvent("engine", <<Last(tokens)>>, "final",
                                       kv_cache_storage))
    /\ kv_cache_storage' = EngineWrite(kv_cache_storage, "engine", session_id, 1)
    /\ stream_ended' = IF req.streamer THEN stream_ended + 1 ELSE stream_ended
    /\ pc' = "done"
    /\ UNCHANGED <<cfg, init_result, engine, multitoken_engine, session_id, req,
                   tokens, num_tokens_processed, prompt_logits, new_token,
                   run_tokens, generated_tokens, generated_logits, streamed,
                   error, requests>>
    /\ UNCHANGED <<bvars, mvars, ivars>>

\* engine_forward returns or raises; the pipeline is ready for the next request
Finish ==
    /\ pc \in {"done", "error"}
    /\ pc' = "idle"
    /\ requests' = requests + 1
    /\ tokens' = <<>>
    /\ num_tokens_processed' = 0
    /\ prompt_logits' = <<>>
    /\ new_token' = NoToken
    /\ run_tokens' = <<>>
    /\ generated_tokens' = <<>>
    /\ generated_logits' = <<>>
    /\ streamed' = <<>>
    /\ stream_ended' = 0
    /\ trace' = <<>>
    /\ error' = "none"
    /\ session_id' = "s1"
    /\ req' = [n |-> 1, streamer |-> FALSE, include_prompt_logits |-> FALSE]
    /\ UNCHANGED <<cfg, init_result, engine, multitoken_engine,
                   kv_cache_storage>>
    /\ UNCHANGED <<bvars, mvars, ivars>>

Next ==
    \/ Construct
    \/ Request
    \/ ForwardNoCache
    \/ PrefillStart
    \/ ChunkStep
    \/ PrefillSync
    \/ SingleStep
    \/ PrefillEnd
    \/ GenerateStep
    \/ GenerateExit
    \/ FinalStep
    \/ Finish

Spec == Init /\ [][Next]_vars

----------------------------------------------------------------------------
(* An engine invocation that raises *)

\* the engine call the request is about to make, if any
CallPending ==
    \/ pc \in {"nocache", "chunks", "final"}
    \/ /\ pc = "single"
       /\ Len(run_tokens) - num_tokens_processed
            < Len(remaining_tokens(tokens, num_tokens_processed))
    \/ /\ pc = "generate"
       /\ Len(generated_tokens) <= max_tokens
       /\ Len(generated_tokens) <= MaxSteps
PendingEngine == IF pc \in {"nocache", "chunks"} THEN "multitoken_engine" ELSE "engine"
PendingPhase ==
    IF pc = "nocache" THEN "nocache"
    ELSE IF pc \in {"chunks", "single"} THEN "prefill"
    ELSE pc

\* trace entry: an engine call that raised
RaiseEvent(e, phase) ==
    [kind |-> "raise", eng |-> e, ids |-> <<>>, phase |-> phase]

\* variant: the error is caught and the call is made again
EngineRaise_retry ==
    /\ CallPending
    /\ error = "none"
    /\ trace' = Append(trace, RaiseEvent(PendingEngine, PendingPhase))
    /\ error' = "EngineError"
    /\ UNCHANGED <<cfg, pc, init_result, engine, multitoken_engine,
                   kv_cache_storage, session_id, req, tokens,
                   num_tokens_processed, prompt_logits, new_token, run_tokens,
                   generated_tokens, generated_logits, streamed, stream_ended,
                   requests>>
    /\ UNCHANGED <<bvars, mvars, ivars>>

\* the engine raises: no statement of engine_forward or prompt_inference
\* catches it, the exception leaves engine_forward
EngineRaise ==
    /\ CallPending
    /\ error = "none"
    /\ trace' = Append(trace, RaiseEvent(PendingEngine, PendingPhase))
    /\ error' = "EngineError"
    /\ pc' = "error"
    /\ UNCHANGED <<cfg, init_result, engine, multitoken_engine,
                   kv_cache_storage, session_id, req, tokens,
                   num_tokens_processed, prompt_logits, new_token, run_tokens,
                   generated_tokens, generated_logits, streamed, stream_ended,
                   requests>>
    /\ UNCHANGED <<bvars, mvars, ivars>>

NextFail ==
    \/ Construct
    \/ Request
    \/ ForwardNoCache
    \/ PrefillStart
    \/ ChunkStep
    \/ PrefillSync
    \/ SingleStep
    \/ PrefillEnd
    \/ GenerateStep
    \/ GenerateExit
    \/ FinalStep
    \/ Finish
    \/ EngineRaise

\* the pipelines whose engine may raise: one engine type, one tokenizer
InitFail ==
    /\ Init
    /\ cfg.engine_type = ORT_ENGINE
    /\ cfg.add_bos_token = Some(TRUE)

SpecFail == InitFail /\ [][NextFail]_vars

----------------------------------------------------------------------------
(* A batched request: validation, split, one worker per sub-batch, join *)

RECURSIVE Max(_)
Max(S) == LET x == CHOOSE y \in S : TRUE
          IN  IF S = {x} THEN x
              ELSE LET m == Max(S \ {x}) IN IF x > m THEN x ELSE m

\* number of rows of the tokenized batch: one per sequence
NumItems(inp) == IF inp.seq_list THEN inp.nseq ELSE 1

\* variant: the uniqueness check is missing
validate_session_ids_dups(ids, inp) ==
    IF ids.kind = "none"
    THEN [error |-> "none", value |-> NoIds]
    ELSE LET lst == ids.val
         IN  IF ~inp.seq_list /\ Len(lst) # 1
             THEN [error |-> "ValueError", value |-> NoIds]
             ELSE IF inp.seq_list /\ Len(lst) # inp.nseq
             THEN [error |-> "ValueError", value |-> NoIds]
             ELSE [error |-> "none", value |-> ListIds(lst)]

\* validate_session_ids: None passes; a string is wrapped into a list; one
\* id for a string sequence, as many ids as sequences for a list, no duplicates
validate_session_ids(ids, inp) ==
    IF ids.kind = "none"
    THEN [error |-> "none", value |-> NoIds]
    ELSE LET lst == ids.val
         IN  IF ~inp.seq_list /\ Len(lst) # 1
             THEN [error |-> "ValueError", value |-> NoIds]
             ELSE IF inp.seq_list /\ Len(lst) # inp.nseq
             THEN [error |-> "ValueError", value |-> NoIds]
             ELSE IF Len(lst) # Cardinality({lst[i] : i \in 1..Len(lst)})
             THEN [error |-> "ValueError", value |-> NoIds]
             ELSE [error |-> "none", value |-> ListIds(lst)]

\* the i-th fresh uuid: differs from every supplied id and every other uuid
generate_session_id(i) == MaxBatch + i

\* construction of TextGenerationInput runs the validator
Validate ==
    /\ bpc = "input"
    /\ LET r == validate_session_ids(inputs.session_ids, inputs)
       IN  /\ bpc' = IF r.error = "none" THEN "validated" ELSE "rejected"
           /\ validated' = r.value
    /\ UNCHANGED <<inputs, batch_size, session_ids, batches, orig_batch_size,
                   batch_outputs, completed, joined>>
    /\ UNCHANGED <<pvars, mvars, ivars>>

\* process_inputs: ids are generated when the request carries none
ProcessInputs ==
    /\ bpc = "validated"
    /\ session_ids' = IF validated.kind = "none"
                      THEN [i \in 1..NumItems(inputs) |-> generate_session_id(i)]
                      ELSE validated.val
    /\ bpc' = "processed"
    /\ UNCHANGED <<inputs, batch_size, validated, batches, orig_batch_size,
                   batch_outputs, completed, joined>>
    /\ UNCHANGED <<pvars, mvars, ivars>>

\* the generic splitter: consecutive slices of batch_size rows, in order
split_generic(n, k) == [j \in 1..(n \div k) |-> [i \in 1..k |-> (j - 1) * k + i]]

\* variant: every sub-batch receives the first session id
split_engine_inputs_first_id(n, ids, k) ==
    LET bs == split_generic(n, k)
    IN  [batches |-> [j \in 1..Len(bs) |->
                        [items |-> bs[j], session_id |-> ids[1]]],
         orig_batch_size |-> n]

\* split_engine_inputs: the tensors are split generically, then sub-batch j
\* receives session_ids[j] (`batch + [session_ids[i]]` with i the index of the
\* sub-batch)
split_engine_inputs(n, ids, k) ==
    LET bs == split_generic(n, k)
    IN  [batches |-> [j \in 1..Len(bs) |->
                        [items |-> bs[j], session_id |-> ids[j]]],
         orig_batch_size |-> n]

Split ==
    /\ bpc = "processed"
    /\ LET r == split_engine_inputs(NumItems(inputs), session_ids, batch_size)
       IN  /\ batches' = r.batches
           /\ orig_batch_size' = r.orig_batch_size
           /\ batch_outputs' = [j \in 1..Len(r.batches) |-> Pending]
    /\ bpc' = "running"
    /\ UNCHANGED <<inputs, batch_size, validated, session_ids, completed, joined>>
    /\ UNCHANGED <<pvars, mvars, ivars>>

\* values an engine_forward produces for the sub-batch that starts at `item`
token_of(item, p) == 100 * item + p
logit_of(item, p) == 100 * item + 50 + p
\* the item a value was produced for; padding belongs to no item
item_of(v) == v \div 100

\* what engine_forward returns for one sub-batch after g generation steps:
\* one row of tokens (the prefill token and the g generated ones), one row
\* of logits (one per generated token) and the one session id it popped from
\* its inputs; without the cache, the engine's token, the logits of the
\* prompt and None
engine_forward_result(batch, g) ==
    IF cfg.cache_support_enabled
    THEN [done |-> TRUE,
          tokens |-> << [p \in 1..(g + 1) |-> token_of(batch.items[1], p)] >>,
          logits |-> << [p \in 1..g |-> logit_of(batch.items[1], p)] >>,
          session_ids |-> << batch.session_id >>]
    ELSE [done |-> TRUE,
          tokens |-> << << token_of(batch.items[1], 1) >> >>,
          logits |-> << [p \in 1..MaxOutLen |-> logit_of(batch.items[1], p)] >>,
          session_ids |-> << NoSession >>]

\* generation steps a sub-batch may take before it stops
GenLens == IF cfg.cache_support_enabled THEN 1..MaxOutLen ELSE {1}

\* a worker finishes the engine_forward of one sub-batch; workers finish in
\* any order, each result lands in the slot of its sub-batch
Worker ==
    /\ bpc = "running"
    /\ \E j \in 1..Len(batches) :
         /\ ~batch_outputs[j].done
         /\ \E g \in GenLens :
              batch_outputs' = [batch_outputs EXCEPT
                                  ![j] = engine_forward_result(batches[j], g)]
         /\ completed' = Append(completed, j)
    /\ UNCHANGED <<bpc, inputs, batch_size, validated, session_ids, batches,
                   orig_batch_size, joined>>
    /\ UNCHANGED <<pvars, mvars, ivars>>

\* tokenizer.pad_token_id: the pad token is the eos token
pad_token_id == EOS

\* variant: the padding goes to the left of the values
pad_to_fixed_length_left(array, max_len, value) ==
    [r \in 1..Len(array) |->
        [i \in 1..(max_len - Len(array[r])) |-> value] \o array[r]]

\* pad_to_fixed_length along axis 1: every row is extended on the right
pad_to_fixed_length(array, max_len, value) ==
    [r \in 1..Len(array) |->
        array[r] \o [i \in 1..(max_len - Len(array[r])) |-> value]]

RECURSIVE concatenate(_)
\* numpy.concatenate along axis 0
concatenate(arrays) ==
    IF arrays = <<>> THEN <<>> ELSE Head(arrays) \o concatenate(Tail(arrays))

\* shape[1] of an array of rows
Shape1(array) == Len(array[1])

join_engine_outputs(outs) ==
    LET idx == 1..Len(outs)
        tokens_in == [j \in idx |-> outs[j].tokens]
        logits_in == [j \in idx |-> outs[j].logits]
        max_len_tokens == Max({Shape1(tokens_in[j]) : j \in idx})
        max_len_logits == Max({Shape1(logits_in[j]) : j \in idx})
        tokens_out == IF cfg.cache_support_enabled
                      THEN [j \in idx |-> pad_to_fixed_length(
                                tokens_in[j], max_len_tokens, pad_token_id)]
                      ELSE tokens_in
        logits_out == IF cfg.cache_support_enabled
                      THEN [j \in idx |-> pad_to_fixed_length(
                                logits_in[j], max_len_logits, 0)]
                      ELSE logits_in
    IN  [tokens |-> concatenate(tokens_out),
         logits |-> concatenate(logits_out),
         session_ids |-> concatenate([j \in idx |-> outs[j].session_ids])]

\* the results are joined once every worker has returned
Join ==
    /\ bpc = "running"
    /\ \A j \in 1..Len(batches) : batch_outputs[j].done
    /\ joined' = join_engine_outputs(batch_outputs)
    /\ bpc' = "joined"
    /\ UNCHANGED <<inputs, batch_size, validated, session_ids, batches,
                   orig_batch_size, batch_outputs, completed>>
    /\ UNCHANGED <<pvars, mvars, ivars>>

\* the pipeline of a batched request: constructed, cache enabled or not
BatchCfgSpace ==
    {c \in CfgSpace :
        /\ InitResult(c) = "ok"
        /\ c.enable_multitoken_prefill
        /\ c.engine_type = ORT_ENGINE
        /\ c.max_generated_tokens = Some(1)
        /\ c.prompt_processing_sequence_length = 1
        /\ c.sequence_length = 2
        /\ ~c.force_max_tokens
        /\ c.add_bos_token = Some(TRUE)}

InitBatch ==
    /\ cfg \in BatchCfgSpace
    /\ pc = "idle"
    /\ init_result = "ok"
    /\ engine = cfg.cache_support_enabled
    /\ multitoken_engine = TRUE
    /\ kv_cache_storage = [e \in Engines |-> [s \in Sessions |-> Absent(s)]]
    /\ session_id = "s1"
    /\ req = [n |-> 1, streamer |-> FALSE, include_prompt_logits |-> FALSE]
    /\ tokens = <<>>
    /\ num_tokens_processed = 0
    /\ prompt_logits = <<>>
    /\ new_token = NoToken
    /\ run_tokens = <<>>
    /\ generated_tokens = <<>>
    /\ generated_logits = <<>>
    /\ streamed = <<>>
    /\ stream_ended = 0
    /\ trace = <<>>
    /\ error = "none"
    /\ requests = 0
    /\ bpc = "input"
    /\ inputs \in InputSpace
    /\ batch_size \in {k \in 1..MaxBatch : NumItems(inputs) % k = 0}
    /\ validated = NoIds
    /\ session_ids = <<>>
    /\ batches = <<>>
    /\ orig_batch_size = 0
    /\ batch_outputs = <<>>
    /\ completed = <<>>
    /\ joined = NoJoin
    /\ MaskIdle
    /\ InputsIdle

NextBatch ==
    \/ Validate
    \/ ProcessInputs
    \/ Split
    \/ Worker
    \/ Join

SpecBatch == InitBatch /\ [][NextBatch]_vars

----------------------------------------------------------------------------
(* create_causal_mask *)

\* an attention mask row of length S with z zeros on the left, as the
\* left-padding tokenizer and the prefill build it
LeftPadded(S, z) == [j \in 1..S |-> IF j <= z THEN 0 ELSE 1]

\* input_ids of shape [batch, L] and attention_mask of shape [batch, S], S >= L
MaskArgs ==
    UNION {UNION {UNION {
        {[input_ids_length |-> L,
          attention_mask |-> [b \in 1..batch |-> LeftPadded(S, zs[b])]] :
            zs \in [1..batch -> 0..S]} :
        L \in 1..S} : S \in 1..MaxSeqLen} : batch \in 1..MaxBatch}

\* numpy.count_nonzero(attention_mask == 0), over the whole array
CountZeros(attention_mask) ==
    LET S == Len(attention_mask[1])
        cells == {<<b, j>> \in (1..Len(attention_mask)) \X (1..S) :
                     attention_mask[b][j] = 0}
    IN  Cardinality(cells)

\* variant: a single new token goes through the general construction
create_causal_mask_general(L, attention_mask) ==
    LET batch == Len(attention_mask)
        sequence_length == Len(attention_mask[1])
        num_zeros == CountZeros(attention_mask)
        cell(i, j) ==
            IF j <= num_zeros THEN 0
            ELSE IF j <= sequence_length - L THEN 1
            ELSE IF j - (sequence_length - L) <= i THEN 1 ELSE 0
    IN  [shape |-> <<batch, 1, L, sequence_length>>,
         mask |-> [b \in 1..batch |->
                     [i \in 1..L |-> [j \in 1..sequence_length |-> cell(i, j)]]]]

\* variant: the past block is concatenated to the right of the triangle
create_causal_mask_past_right(L, attention_mask) ==
    LET batch == Len(attention_mask)
        sequence_length == Len(attention_mask[1])
        num_zeros == CountZeros(attention_mask)
        cell(i, j) ==
            IF j <= num_zeros THEN 0
            ELSE IF j > L THEN 1
            ELSE IF j <= i THEN 1 ELSE 0
    IN  IF L = 1
        THEN [shape |-> <<batch, 1, 1, sequence_length>>,
              mask |-> [b \in 1..batch |-> <<attention_mask[b]>>]]
        ELSE [shape |-> <<batch, 1, L, sequence_length>>,
              mask |-> [b \in 1..batch |->
                          [i \in 1..L |->
                              [j \in 1..sequence_length |-> cell(i, j)]]]]

\* create_causal_mask; the axis of size 1 is kept in the shape only.
\* L = 1: the attention mask reshaped. L > 1: a block of ones for the past,
\* the lower triangle for the new tokens, then the first num_zeros columns
\* are zeroed, num_zeros counted over the whole attention mask
create_causal_mask(L, attention_mask) ==
    LET batch == Len(attention_mask)
        sequence_length == Len(attention_mask[1])
        num_zeros == CountZeros(attention_mask)
        cell(i, j) ==
            IF j <= num_zeros THEN 0
            ELSE IF j <= sequence_length - L THEN 1
            ELSE IF j - (sequence_length - L) <= i THEN 1 ELSE 0
    IN  IF L = 1
        THEN [shape |-> <<batch, 1, 1, sequence_length>>,
              mask |-> [b \in 1..batch |-> <<attention_mask[b]>>]]
        ELSE [shape |-> <<batch, 1, L, sequence_length>>,
              mask |-> [b \in 1..batch |->
                          [i \in 1..L |->
                              [j \in 1..sequence_length |-> cell(i, j)]]]]

CreateCausalMask ==
    /\ mpc = "input"
    /\ causal_mask' = create_causal_mask(mask_args.input_ids_length,
                                         mask_args.attention_mask)
    /\ mpc' = "output"
    /\ UNCHANGED mask_args
    /\ UNCHANGED <<pvars, bvars, ivars>>

InitMask ==
    /\ cfg \in BatchCfgSpace
    /\ cfg.cache_support_enabled
    /\ pc = "idle"
    /\ init_result = "ok"
    /\ engine = TRUE
    /\ multitoken_engine = TRUE
    /\ kv_cache_storage = [e \in Engines |-> [s \in Sessions |-> Absent(s)]]
    /\ session_id = "s1"
    /\ req = [n |-> 1, streamer |-> FALSE, include_prompt_logits |-> FALSE]
    /\ tokens = <<>>
    /\ num_tokens_processed = 0
    /\ prompt_logits = <<>>
    /\ new_token = NoToken
    /\ run_tokens = <<>>
    /\ generated_tokens = <<>>
    /\ generated_logits = <<>>
    /\ streamed = <<>>
    /\ stream_ended = 0
    /\ trace = <<>>
    /\ error = "none"
    /\ requests = 0
    /\ BatchIdle
    /\ mpc = "input"
    /\ mask_args \in MaskArgs
    /\ causal_mask = NoMask
    /\ InputsIdle

NextMask ==
    \/ CreateCausalMask

SpecMask == InitMask /\ [][NextMask]_vars

----------------------------------------------------------------------------
(* The list of arrays built for one engine call *)

InputNames == {"input_ids", "attention_mask", "causal_mask", "positions"}

\* what an engine can declare: the names of a subset of the roles, in any order
DeclaredNames ==
    {names \in UNION {[1..n -> InputNames] : n \in 1..Cardinality(InputNames)} :
        \A i, j \in 1..Len(names) : names[i] = names[j] => i = j}

\* an array built for a role; a causal mask records the arrays that were
\* passed to create_causal_mask as input_ids and attention_mask
Array(name) == [role |-> name, input_ids |-> "none", attention_mask |-> "none"]
CausalMaskFrom(input_ids, attention_mask) ==
    [role |-> "causal_mask", input_ids |-> input_ids.role,
     attention_mask |-> attention_mask.role]

\* autoregressive_inference: the four arrays by name
engine_inputs_map(name) ==
    IF name = "causal_mask"
    THEN CausalMaskFrom(Array("input_ids"), Array("attention_mask"))
    ELSE Array(name)

\* autoregressive_inference: the map is read in the order of the declared names
autoregressive_engine_inputs(names) ==
    [raised |-> "none",
     tensors |-> [k \in 1..Len(names) |-> engine_inputs_map(names[k])]]

\* engine_inputs_for_prefill: the loop over the declared names, which skips
\* causal_mask and appends the array of every other name
RECURSIVE prefill_loop(_, _)
prefill_loop(names, acc) ==
    IF names = <<>> THEN acc
    ELSE IF Head(names) = "causal_mask" THEN prefill_loop(Tail(names), acc)
    ELSE prefill_loop(Tail(names), Append(acc, Array(Head(names))))

\* engine_inputs_for_prefill: after the loop a declared causal mask is made
\* from the first two arrays of the list and appended to it; indexing a list
\* that is too short raises IndexError
prefill_engine_inputs(names) ==
    LET built == prefill_loop(names, <<>>)
    IN  IF \E k \in 1..Len(names) : names[k] = "causal_mask"
        THEN IF Len(built) < 2
             THEN [raised |-> "IndexError", tensors |-> built]
             ELSE [raised |-> "none",
                   tensors |-> Append(built, CausalMaskFrom(built[1], built[2]))]
        ELSE [raised |-> "none", tensors |-> built]

BuildPrefillInputs ==
    /\ ipc = "input"
    /\ engine_inputs' = prefill_engine_inputs(onnx_input_names_no_cache)
    /\ ipc' = "prefill"
    /\ UNCHANGED onnx_input_names_no_cache
    /\ UNCHANGED <<pvars, bvars, mvars>>

BuildAutoregressiveInputs ==
    /\ ipc = "input"
    /\ engine_inputs' = autoregressive_engine_inputs(onnx_input_names_no_cache)
    /\ ipc' = "autoregressive"
    /\ UNCHANGED onnx_input_names_no_cache
    /\ UNCHANGED <<pvars, bvars, mvars>>

InitInputs ==
    /\ cfg \in BatchCfgSpace
    /\ cfg.cache_support_enabled
    /\ pc = "idle"
    /\ init_result = "ok"
    /\ engine = TRUE
    /\ multitoken_engine = TRUE
    /\ kv_cache_storage = [e \in Engines |-> [s \in Sessions |-> Absent(s)]]
    /\ session_id = "s1"
    /\ req = [n |-> 1, streamer |-> FALSE, include_prompt_logits |-> FALSE]
    /\ tokens = <<>>
    /\ num_tokens_processed = 0
    /\ prompt_logits = <<>>
    /\ new_token = NoToken
    /\ run_tokens = <<>>
    /\ generated_tokens = <<>>
    /\ generated_logits = <<>>
    /\ streamed = <<>>
    /\ stream_ended = 0
    /\ trace = <<>>
    /\ error = "none"
    /\ requests = 0
    /\ BatchIdle
    /\ MaskIdle
    /\ ipc = "input"
    /\ onnx_input_names_no_cache \in DeclaredNames
    /\ engine_inputs = NoInputs

NextInputs ==
    \/ BuildPrefillInputs
    \/ BuildAutoregressiveInputs

SpecInputs == InitInputs /\ [][NextInputs]_vars

----------------------------------------------------------------------------
(* Properties *)

SyncIdx == {i \in 1..Len(trace) : trace[i].kind = "sync"}
CallIdx == {i \in 1..Len(trace) : trace[i].kind = "call"}
CachePath == cfg.cache_support_enabled

\* C1: after a completed synchronize_engines for a session present in at
\* least one store, both stores hold the entry that had the larger timestamp
\* before the call (an absent entry is older than any timestamp).
C1_SyncNewerInBoth ==
    \A i \in SyncIdx :
        LET ev == trace[i]
            newer == IF ev.pre_engine.timestamp > ev.pre_multitoken.timestamp
                     THEN ev.pre_engine ELSE ev.pre_multitoken
        IN  (ev.pre_engine.present \/ ev.pre_multitoken.present)
            => /\ ev.post_engine = newer
               /\ ev.post_multitoken = newer
               /\ newer.present
               /\ newer.timestamp >= ev.pre_engine.timestamp
               /\ newer.timestamp >= ev.pre_multitoken.timestamp

\* a request whose first synchronization found the single-token store newer
\* than a present multitoken entry, and whose second found the multitoken
\* store newer
C1_Witness ==
    /\ \E i \in SyncIdx :
          /\ trace[i].pre_multitoken.present
          /\ trace[i].pre_engine.timestamp > trace[i].pre_multitoken.timestamp
          /\ trace[i].post_multitoken = trace[i].pre_engine
    /\ \E i \in SyncIdx :
          /\ trace[i].pre_engine.present
          /\ trace[i].pre_multitoken.timestamp > trace[i].pre_engine.timestamp
          /\ trace[i].post_engine = trace[i].pre_multitoken

\* C2: in the cache-enabled path every engine call is preceded by a completed
\* synchronization with no call to the other engine in between, and reads an
\* entry that is not older than the one in the other engine's store.
C2_SyncBeforeCall ==
    CachePath =>
      \A i \in CallIdx :
        /\ \E j \in SyncIdx :
              /\ j < i
              /\ \A k \in (j + 1)..(i - 1) :
                    ~(trace[k].kind = "call" /\ trace[k].eng # trace[i].eng)
        /\ trace[i].ts_self >= trace[i].ts_other

\* a resumed session whose prompt went through both engines: multitoken
\* chunk calls, then single-token calls, each after its synchronization
C2_Witness ==
    /\ CachePath
    /\ pc = "done"
    /\ \E i, j \in CallIdx :
          /\ i < j
          /\ trace[i].eng = "multitoken_engine"
          /\ trace[i].ts_self > 0
          /\ trace[j].eng = "engine"
          /\ trace[j].phase = "prefill"

\* C3: in each store the timestamp of a session's entry never decreases, and
\* an engine call strictly increases it in the invoked engine's store.
C3_TimestampMonotonic ==
    [][ /\ \A e \in Engines, s \in Sessions :
             kv_cache_storage'[e][s].timestamp >= kv_cache_storage[e][s].timestamp
        /\ (CachePath /\ Len(trace') = Len(trace) + 1 /\ Last(trace').kind = "call")
             => kv_cache_storage'[Last(trace').eng][session_id].timestamp
                  > kv_cache_storage[Last(trace').eng][session_id].timestamp
      ]_vars

\* a synchronization raised a store's timestamp and engine calls followed it
C3_Witness ==
    /\ \E i \in SyncIdx :
          /\ trace[i].pre_engine.present
          /\ trace[i].pre_multitoken.present
          /\ trace[i].post_multitoken.timestamp > trace[i].pre_multitoken.timestamp
    /\ \E i \in CallIdx : trace[i].ts_self > 1

FinalIdx == {i \in CallIdx : trace[i].phase = "final"}
GenIdx == {i \in CallIdx : trace[i].phase = "generate"}
PrefillIdx == {i \in CallIdx : trace[i].phase = "prefill"}
BudgetSet == cfg.max_generated_tokens # None /\ cfg.max_generated_tokens[1] > 0

\* C4: with max_generated_tokens = m > 0 the number of generated tokens
\* returned by a cache-enabled request (the prefill token plus the tokens of
\* the generation steps) never exceeds m.
C4_BudgetRespected ==
    (CachePath /\ pc \in {"generate", "final", "done"} /\ BudgetSet)
        => Len(generated_tokens) <= cfg.max_generated_tokens[1]

\* C5: without force_max_tokens an EOS token, produced by the prefill or by
\* a generation step, stops decoding: EOS can only be the last generated
\* token and the loop is not running after one; with force_max_tokens the
\* loop only ends when the token count passes the maximum.
C5_EosStopsDecoding ==
    (CachePath /\ pc \in {"generate", "final", "done"})
        => IF ~cfg.force_max_tokens
           THEN /\ \A i \in 1..(Len(generated_tokens) - 1) : generated_tokens[i] # EOS
                /\ pc = "generate" => Last(generated_tokens) # EOS
           ELSE pc \in {"final", "done"} => Len(generated_tokens) > max_tokens

\* C6: on a successful cache-enabled request exactly one single-token call
\* follows the generation loop, its input is the last accepted token, and
\* what it returns is added neither to the tokens, nor to the logits, nor to
\* the stream.
C6_OneSilentFinalCall ==
    CachePath =>
      /\ pc # "done" => FinalIdx = {}
      /\ pc = "done" =>
            /\ FinalIdx = {Len(trace)}
            /\ trace[Len(trace)].eng = "engine"
            /\ trace[Len(trace)].ids = <<Last(generated_tokens)>>
            /\ Len(generated_tokens) = 1 + Cardinality(GenIdx)
            /\ Len(generated_logits) = Cardinality(GenIdx)
                   + (IF req.include_prompt_logits THEN Len(prompt_logits) ELSE 0)
            /\ \A k \in 1..Len(generated_logits) : generated_logits[k] # Len(trace)
            /\ Len(streamed) = IF req.streamer THEN 1 + Cardinality(GenIdx) ELSE 0

\* a streamed request that took generation steps and made its last call
C6_Witness ==
    /\ CachePath
    /\ pc = "done"
    /\ req.streamer
    /\ Cardinality(GenIdx) >= 2
    /\ Cardinality(FinalIdx) = 1

\* C7: without cache support engine_forward makes exactly one engine call,
\* on the multitoken engine over the whole prompt, returns one token, and
\* performs no synchronization, single-token call, generation or final step.
C7_NoCacheSinglePass ==
    ~CachePath =>
      /\ SyncIdx = {}
      /\ \A i \in CallIdx :
            trace[i].eng = "multitoken_engine" /\ trace[i].phase = "nocache"
      /\ pc \notin {"prefill", "chunks", "prefill_sync", "single", "generate", "final"}
      /\ pc = "done" =>
            /\ Len(trace) = 1
            /\ trace[1].kind = "call"
            /\ trace[1].ids = Prompt(req.n)
            /\ Len(generated_tokens) = 1

\* a completed request of a pipeline without cache support
C7_Witness ==
    /\ ~CachePath
    /\ pc = "done"
    /\ req.n >= 2
    /\ Len(trace) = 1

\* C8: constructing the pipeline without cache support and with more than
\* one token requested (max_generated_tokens > 1 or unset) is rejected with
\* a configuration error before any engine is created.
C8_NoCacheMultiTokenRejected ==
    (pc # "new" /\ ~cfg.cache_support_enabled
       /\ (cfg.max_generated_tokens = None \/ cfg.max_generated_tokens[1] > 1))
        => /\ init_result = "ValueError"
           /\ pc = "rejected"
           /\ ~engine /\ ~multitoken_engine

\* C9 as stated: with cache support and multitoken prefill enabled, a
\* prompt_processing_sequence_length >= sequence_length is rejected with a
\* configuration error before any engine is created, for every configuration.
C9_ChunkSizeRejected ==
    (pc # "new" /\ cfg.cache_support_enabled /\ cfg.enable_multitoken_prefill
       /\ cfg.prompt_processing_sequence_length >= cfg.sequence_length)
        => /\ init_result = "ValueError"
           /\ pc = "rejected"
           /\ ~engine /\ ~multitoken_engine

\* C9 amended: the rejection happens when the engine type is the DeepSparse
\* engine.
C9_ChunkSizeRejectedDeepSparse ==
    (pc # "new" /\ cfg.cache_support_enabled /\ cfg.enable_multitoken_prefill
       /\ cfg.engine_type = DEEPSPARSE_ENGINE
       /\ cfg.prompt_processing_sequence_length >= cfg.sequence_length)
        => /\ init_result = "ValueError"
           /\ pc = "rejected"
           /\ ~engine /\ ~multitoken_engine

\* a DeepSparse pipeline rejected for a chunk size equal to the sequence length
C9_Witness ==
    /\ pc = "rejected"
    /\ init_result = "ValueError"
    /\ cfg.cache_support_enabled /\ cfg.enable_multitoken_prefill
    /\ cfg.engine_type = DEEPSPARSE_ENGINE
    /\ cfg.prompt_processing_sequence_length = cfg.sequence_length

RECURSIVE FedTokens(_)
\* the tokens handed to the engines by the first k entries of the trace
\* during the prefill, in call order
FedTokens(k) ==
    IF k = 0 THEN <<>>
    ELSE FedTokens(k - 1) \o (IF k \in PrefillIdx THEN trace[k].ids ELSE <<>>)

\* C10: no prompt token is discarded in the prefill: each prompt token (after
\* the optional BOS strip) is the input of exactly one engine call, in prompt
\* order, the chunks through the multitoken engine and every token of the
\* remainder through the single-token engine.
C10_NoPromptTokenDiscarded ==
    (CachePath /\ pc \in {"generate", "final", "done"}) =>
        LET prompt == SubSeq(tokens, 1, Len(tokens) - Len(generated_tokens))
            multi == {i \in PrefillIdx : trace[i].eng = "multitoken_engine"}
            single == {i \in PrefillIdx : trace[i].eng = "engine"}
        IN  /\ prompt \in {Prompt(req.n), Tail(Prompt(req.n))}
            /\ FedTokens(Len(trace)) = prompt
            /\ \A i \in multi : Len(trace[i].ids) = C
            /\ \A i \in single : Len(trace[i].ids) = 1
            /\ \A i \in multi, j \in single : i < j
            /\ multi # {} => Cardinality(single) < C

\* a prefill that ran a chunk on the multitoken engine and left a remainder
\* to the single-token engine
C10_Witness ==
    /\ CachePath
    /\ pc = "generate"
    /\ \E i \in PrefillIdx : trace[i].eng = "multitoken_engine" /\ Len(trace[i].ids) = 2
    /\ \E i \in PrefillIdx : trace[i].eng = "engine"

\* the prompt as the prefill processed it (after the BOS strip), once the
\* prefill has returned
PromptProcessed == SubSeq(tokens, 1, Len(tokens) - Len(generated_tokens))
PrefillReturned == CachePath /\ pc \in {"generate", "final", "done"}
MultiPrefillIdx == {i \in PrefillIdx : trace[i].eng = "multitoken_engine"}
SinglePrefillIdx == {i \in PrefillIdx : trace[i].eng = "engine"}

\* C11: with multitoken prefill enabled, a prompt of n tokens and chunk size
\* C is prefilled by exactly floor(n / C) multitoken calls, each over C
\* consecutive tokens, followed by exactly n mod C single-token calls (one
\* multitoken call and no single-token call when n = C).
C11_AsManyChunksAsFit ==
    (PrefillReturned /\ cfg.enable_multitoken_prefill) =>
        LET n == Len(PromptProcessed)
        IN  /\ Cardinality(MultiPrefillIdx) = n \div C
            /\ Cardinality(SinglePrefillIdx) = n % C
            /\ \A i \in MultiPrefillIdx, j \in SinglePrefillIdx : i < j
            /\ \A i \in MultiPrefillIdx :
                  \E q \in 0..((n \div C) - 1) :
                      trace[i].ids = SubSeq(PromptProcessed, q * C + 1, (q + 1) * C)

\* C12: prompt_inference returns the prompt token list with exactly one new
\* token appended, and one logits entry per multitoken chunk call plus one
\* per single-token call.
C12_PrefillResult ==
    PrefillReturned =>
        /\ PromptProcessed \in {Prompt(req.n), Tail(Prompt(req.n))}
        /\ generated_tokens[1] = new_token
        /\ new_token # NoToken
        /\ Len(prompt_logits) = Cardinality(PrefillIdx)

RECURSIVE SumSeq(_)
SumSeq(q) == IF q = <<>> THEN 0 ELSE Head(q) + SumSeq(Tail(q))

\* C13: an engine call that would make the session's context exceed the
\* sequence length (cached rows + new tokens > S) is not made but surfaced as
\* a capacity error; the attention mask is never capped to S.
C13_CapacityDetected ==
    CachePath =>
        \A i \in CallIdx :
            /\ trace[i].cached + Len(trace[i].ids) <= cfg.sequence_length
            /\ SumSeq(trace[i].attention_mask) = trace[i].cached + Len(trace[i].ids)

RECURSIVE Flatten(_)
\* the tokens of a sequence of streamer.put arguments, in order
Flatten(puts) == IF puts = <<>> THEN <<>> ELSE Head(puts) \o Flatten(Tail(puts))

\* C19: with a streamer, the tokens pushed to it are exactly the newly
\* produced tokens (the prefill's token, then each generation step's token)
\* in production order; no prompt token and no token of the final call is
\* pushed.
C19_StreamOnlyNewTokens ==
    (PrefillReturned /\ req.streamer) => Flatten(streamed) = generated_tokens

\* C20: with a streamer, on every completed request, with or without cache
\* support, the streamer is closed exactly once, after the last engine call
\* and after every push, and not before.
C20_StreamClosedOnce ==
    req.streamer =>
        /\ pc = "done" => stream_ended = 1
        /\ pc \notin {"done", "idle"} => stream_ended = 0

BatchValidated == bpc \notin {"off", "input"}
\* the supplied ids as a list: a single string counts as one id
Supplied == inputs.session_ids.val
NoEngineWork ==
    /\ batches = <<>>
    /\ batch_outputs = <<>>
    /\ completed = <<>>
    /\ joined = NoJoin

\* C14: split_engine_inputs attaches to sub-batch j exactly the session ids
\* of the items it contains, in order, and returns the original batch size n.
C14_SplitAttachesItemIds ==
    bpc \in {"running", "joined"} =>
        /\ orig_batch_size = NumItems(inputs)
        /\ \A j \in 1..Len(batches) :
             <<batches[j].session_id>> =
                 [i \in 1..Len(batches[j].items) |-> session_ids[batches[j].items[i]]]

\* C15: after split, per-sub-batch engine_forward and join, row i of the
\* joined tokens and logits and entry i of the joined session ids belong to
\* item i, and the joined session ids are the n ids supplied or generated.
C15_RoundTrip ==
    bpc = "joined" =>
        LET n == NumItems(inputs)
        IN  /\ Len(joined.tokens) = n
            /\ Len(joined.logits) = n
            /\ Len(joined.session_ids) = n
            /\ joined.session_ids = session_ids
            /\ \A i \in 1..n :
                 /\ item_of(joined.tokens[i][1]) = i
                 /\ item_of(joined.logits[i][1]) = i

\* C16: with cache support, the joined tokens and logits are the rows of the
\* sub-batches in order, each kept as a prefix and followed by pad tokens
\* (zeros for logits) up to the longest row of any sub-batch; the session
\* ids are the sub-batches' ids in order, unpadded.
C16_JoinRightPads ==
    (bpc = "joined" /\ cfg.cache_support_enabled) =>
        LET nb == Len(batch_outputs)
            tmax == Max({Len(batch_outputs[j].tokens[1]) : j \in 1..nb})
            lmax == Max({Len(batch_outputs[j].logits[1]) : j \in 1..nb})
        IN  /\ Len(joined.tokens) = nb
            /\ Len(joined.logits) = nb
            /\ \A j \in 1..nb :
                 LET t == batch_outputs[j].tokens[1]
                     l == batch_outputs[j].logits[1]
                 IN  /\ Len(joined.tokens[j]) = tmax
                     /\ SubSeq(joined.tokens[j], 1, Len(t)) = t
                     /\ \A p \in Len(t)+1..tmax : joined.tokens[j][p] = pad_token_id
                     /\ Len(joined.logits[j]) = lmax
                     /\ SubSeq(joined.logits[j], 1, Len(l)) = l
                     /\ \A p \in Len(l)+1..lmax : joined.logits[j][p] = 0
            /\ joined.session_ids = [j \in 1..nb |-> batch_outputs[j].session_ids[1]]

\* a shorter sub-batch was padded, tokens and logits
C16_Witness ==
    /\ bpc = "joined"
    /\ cfg.cache_support_enabled
    /\ \E j, k \in 1..Len(batch_outputs) :
         /\ Len(batch_outputs[j].tokens[1]) < Len(batch_outputs[k].tokens[1])
         /\ Len(batch_outputs[j].logits[1]) < Len(batch_outputs[k].logits[1])
         /\ Last(joined.tokens[j]) = pad_token_id
         /\ Last(joined.logits[j]) = 0

\* the workers finished in the order the sub-batches were submitted
InSubmissionOrder == completed = [j \in 1..Len(completed) |-> j]

\* C17: whatever the order in which the workers of a request finish, the
\* joined output has item i's result at position i.
C17_CompletionOrderIrrelevant ==
    (bpc = "joined" /\ ~InSubmissionOrder) =>
        /\ Len(joined.tokens) = NumItems(inputs)
        /\ \A i \in 1..NumItems(inputs) :
             /\ item_of(joined.tokens[i][1]) = i
             /\ item_of(joined.logits[i][1]) = i

\* C18: a request whose number of session ids differs from its number of
\* sequences, or that repeats an id, is rejected before any engine work;
\* otherwise the ids are accepted unchanged and in order, a single string as
\* a one-element list and None as None.
C18_SessionIdsValidated ==
    BatchValidated =>
        LET given == inputs.session_ids.kind # "none"
            bad == given /\ (\/ Len(Supplied) # NumItems(inputs)
                             \/ \E i, j \in 1..Len(Supplied) :
                                   i # j /\ Supplied[i] = Supplied[j])
        IN  /\ bad => (bpc = "rejected" /\ NoEngineWork)
            /\ ~bad => /\ bpc # "rejected"
                       /\ validated = IF given THEN ListIds(Supplied) ELSE NoIds

\* a request with a repeated id was rejected, and one with a single string
\* id went through
C18_Witness ==
    \/ /\ bpc = "rejected"
       /\ Len(Supplied) = NumItems(inputs)
       /\ \E i, j \in 1..Len(Supplied) : i # j /\ Supplied[i] = Supplied[j]
    \/ /\ bpc = "joined"
       /\ inputs.session_ids.kind = "str"
       /\ validated = ListIds(Supplied)

RaiseIdx == {i \in 1..Len(trace) : trace[i].kind = "raise"}

\* C21: when an engine invocation raises, the error leaves engine_forward:
\* the failing call is the last thing the request did, it was made once, and
\* the request never reaches the return of tokens and logits.
C21_EngineErrorPropagates ==
    error = "EngineError" =>
        /\ pc = "error"
        /\ RaiseIdx = {Len(trace)}

\* the engine raised in the generation loop, after calls that succeeded
C21_Witness ==
    /\ error = "EngineError"
    /\ pc = "error"
    /\ Last(trace).phase = "generate"
    /\ Len(generated_tokens) >= 2

\* C22: the list of every engine call holds tensors only; the session id
\* attached to the sub-batch is taken out before the call, with the cache
\* and without it.
C22_TensorsOnly ==
    \A i \in CallIdx :
        \A k \in 1..Len(trace[i].engine_inputs) :
            trace[i].engine_inputs[k] # "session_id"

\* synchronizations that start with both entries present and equally old
EqualSyncIdx ==
    {i \in SyncIdx : /\ trace[i].pre_engine.present
                     /\ trace[i].pre_multitoken.present
                     /\ trace[i].pre_engine.timestamp
                          = trace[i].pre_multitoken.timestamp}

\* C23: a synchronization that finds entries with equal timestamps in the
\* two stores transfers nothing: no entry of either store is replaced and
\* both stores are as before.
C23_SyncIdempotent ==
    \A i \in EqualSyncIdx :
        /\ trace[i].writes = <<>>
        /\ trace[i].post_engine = trace[i].pre_engine
        /\ trace[i].post_multitoken = trace[i].pre_multitoken

\* synchronizations of a session that neither store holds
FirstUseSyncIdx ==
    {i \in SyncIdx : /\ ~trace[i].pre_engine.present
                     /\ ~trace[i].pre_multitoken.present}
\* synchronizations of a session that exactly one store holds
OneSidedSyncIdx ==
    {i \in SyncIdx : trace[i].pre_engine.present # trace[i].pre_multitoken.present}

\* C24: the synchronization of a session that neither store holds completes
\* without error, replaces nothing and leaves both stores without the
\* session; an entry that only one store holds is the newer one and ends in
\* both stores.
C24_FirstUseNoOp ==
    /\ \A i \in FirstUseSyncIdx :
         /\ trace[i].writes = <<>>
         /\ trace[i].post_engine = trace[i].pre_engine
         /\ trace[i].post_multitoken = trace[i].pre_multitoken
         /\ (i = Len(trace) => pc # "error")
    /\ \A i \in OneSidedSyncIdx :
         LET held == IF trace[i].pre_engine.present
                     THEN trace[i].pre_engine ELSE trace[i].pre_multitoken
         IN  /\ trace[i].post_engine = held
             /\ trace[i].post_multitoken = held

\* a request went through a first-use synchronization and made engine calls,
\* and a later synchronization found the session in one store only
C24_Witness ==
    /\ FirstUseSyncIdx # {}
    /\ OneSidedSyncIdx # {}
    /\ \E i \in FirstUseSyncIdx, j \in CallIdx : i < j

\* C25: with the cache and without multitoken prefill (the multitoken engine
\* is None) a request raises nothing, and its prefill runs every prompt token
\* through the single-token engine, one call per token.
C25_SingleTokenPrefillCompletes ==
    (CachePath /\ ~cfg.enable_multitoken_prefill) =>
        /\ error = "none"
        /\ PrefillReturned =>
              /\ MultiPrefillIdx = {}
              /\ Cardinality(SinglePrefillIdx) = Len(PromptProcessed)

\* the request left the generation loop on an EOS token of a generation step
StoppedOnEos ==
    /\ CachePath
    /\ ~cfg.force_max_tokens
    /\ pc \in {"final", "done"}
    /\ GenIdx # {}
    /\ Last(generated_tokens) = EOS

\* C26: without force_max_tokens, when generation step j (1 <= j <=
\* max_generated_tokens) produces EOS, no further generation step runs and
\* exactly j generated tokens are returned.
C26_EosAtStepJ ==
    (StoppedOnEos /\ BudgetSet
        /\ Cardinality(GenIdx) <= cfg.max_generated_tokens[1]) =>
        Len(generated_tokens) = Cardinality(GenIdx)

\* a cache-enabled request is between its arrival and its return
Running ==
    CachePath /\ pc \in {"prefill", "chunks", "prefill_sync", "single",
                          "generate", "final"}
\* the most iterations the generation loop may run
Ceiling == IF BudgetSet THEN cfg.max_generated_tokens[1]
           ELSE 100 * cfg.sequence_length
Rank ==
    CASE pc = "prefill" -> 6
      [] pc = "chunks" -> 5
      [] pc = "prefill_sync" -> 4
      [] pc = "single" -> 3
      [] pc = "generate" -> 2
      [] pc = "final" -> 1
      [] OTHER -> 0
\* what is left of the loop the request is in
LoopLeft ==
    CASE pc = "chunks" -> num_batches(tokens) - num_tokens_processed \div C
      [] pc = "single" -> Len(tokens) - Len(run_tokens)
      [] pc = "generate" -> Ceiling - Cardinality(GenIdx)
      [] OTHER -> 0
\* larger than any LoopLeft
Big == 100 * MaxSeqLen + MaxPrompt + 1
Variant == Rank * Big + LoopLeft

MaskBatch == Len(mask_args.attention_mask)
MaskL == mask_args.input_ids_length
MaskS == Len(mask_args.attention_mask[1])
\* what the mask is when nothing is padded: ones for the past, then the
\* lower triangle of the new tokens
Unpadded(i, j) ==
    IF j <= MaskS - MaskL THEN 1
    ELSE IF j - (MaskS - MaskL) <= i THEN 1 ELSE 0
\* number of zeros at the left of an attention mask row
LeadingZeros(row) ==
    Cardinality({j \in 1..Len(row) : \A k \in 1..j : row[k] = 0})

\* C28: for one new token (L = 1) the causal mask is the attention mask
\* reshaped to [batch, 1, 1, S]: every item's single row is its attention
\* mask row, nothing is zeroed.
C28_SingleTokenReshape ==
    (mpc = "output" /\ MaskL = 1) =>
        /\ causal_mask.shape = <<MaskBatch, 1, 1, MaskS>>
        /\ \A b \in 1..MaskBatch :
             causal_mask.mask[b] = <<mask_args.attention_mask[b]>>

\* a batch of two items whose attention masks differ, one of them padded
C28_Witness ==
    /\ mpc = "output"
    /\ MaskL = 1
    /\ MaskBatch >= 2
    /\ MaskS >= 2
    /\ causal_mask.mask[1][1] # causal_mask.mask[2][1]
    /\ \E j \in 1..MaskS : causal_mask.mask[1][1][j] = 0

\* C29: for L > 1 new tokens and an all-ones attention mask of length
\* S >= L the causal mask has shape [batch, 1, L, S], ones in its first
\* S - L columns and a lower triangle in its last L columns.
C29_AllOnesLowerTriangular ==
    (/\ mpc = "output"
     /\ MaskL > 1
     /\ \A b \in 1..MaskBatch : LeadingZeros(mask_args.attention_mask[b]) = 0) =>
        /\ causal_mask.shape = <<MaskBatch, 1, MaskL, MaskS>>
        /\ \A b \in 1..MaskBatch, i \in 1..MaskL, j \in 1..MaskS :
             causal_mask.mask[b][i][j] =
                 IF j <= MaskS - MaskL THEN 1
                 ELSE IF j - (MaskS - MaskL) <= i THEN 1 ELSE 0

\* a mask with a past column and a triangle, for more than one item
C29_Witness ==
    /\ mpc = "output"
    /\ MaskL > 1
    /\ MaskS > MaskL
    /\ MaskBatch >= 2
    /\ \A b \in 1..MaskBatch : LeadingZeros(mask_args.attention_mask[b]) = 0
    /\ causal_mask.mask[2][1][MaskS] = 0
    /\ causal_mask.mask[2][MaskL][MaskS] = 1

\* C30: for L > 1 and any batch size, an item whose attention mask has z
\* leading zeros has the first z columns of its causal mask zero in every
\* row and the other columns as with an all-ones attention mask.
C30_LeadingZerosPerItem ==
    (mpc = "output" /\ MaskL > 1) =>
        \A b \in 1..MaskBatch :
            LET z == LeadingZeros(mask_args.attention_mask[b])
            IN  \A i \in 1..MaskL, j \in 1..MaskS :
                    causal_mask.mask[b][i][j] =
                        IF j <= z THEN 0 ELSE Unpadded(i, j)

\* the column of the causal mask that stands for new token k (from 1)
NewTokenColumn(k) == MaskS - MaskL + k

\* C31: in a causal mask for L > 1 new tokens, row i has a 1 in the column
\* of every new token up to i that is not padding; a new token that is not
\* padding attends to itself.
C31_AttendsToOwnPrefix ==
    (mpc = "output" /\ MaskL > 1) =>
        \A b \in 1..MaskBatch, i \in 1..MaskL, k \in 1..MaskL :
            (k <= i /\ mask_args.attention_mask[b][NewTokenColumn(k)] = 1)
                => causal_mask.mask[b][i][NewTokenColumn(k)] = 1

\* C32: in every engine call of the cache-enabled path the first new token
\* gets the position equal to the session's non-blank cache rows at the
\* call and the following new tokens get consecutive positions, for every
\* chunk size and for fresh and resumed sessions.
C32_PositionIsCacheRows ==
    CachePath =>
        \A i \in CallIdx :
            /\ Len(trace[i].positions) = Len(trace[i].ids)
            /\ \A k \in 1..Len(trace[i].positions) :
                 trace[i].positions[k] = trace[i].cached + k - 1

\* the multitoken call that follows call i in the prefill, if there is one
NextChunk(i) == {k \in MultiPrefillIdx : k > i /\ \A m \in MultiPrefillIdx : m > i => k <= m}

\* C33: the cache rows used for a chunk are read after the engine call of
\* the chunk before it: they are the rows the session holds once that call
\* has written its C tokens; and when C + cached rows fit in the sequence
\* length, exactly the right-most C + cached rows entries of the chunk's
\* attention mask are 1.
C33_ChunksBuiltLazily ==
    CachePath =>
        \A i \in MultiPrefillIdx :
            LET ones == C + trace[i].cached
                S == cfg.sequence_length
            IN  /\ \A k \in NextChunk(i) :
                     /\ trace[k].cached = Min(ones, S)
                     /\ trace[k].ts_self > trace[i].ts_self
                /\ ones <= S =>
                     /\ Len(trace[i].attention_mask) = S
                     /\ \A j \in 1..S :
                          trace[i].attention_mask[j] = IF j > S - ones THEN 1 ELSE 0

\* a prefill of two chunks: the second sees the row the first has written
\* and its mask still has a zero on the left
C33_Witness ==
    /\ CachePath
    /\ \E i \in MultiPrefillIdx : \E k \in NextChunk(i) :
         /\ trace[i].cached = 0
         /\ trace[k].cached = C
         /\ trace[k].attention_mask[1] = 0
         /\ trace[k].attention_mask[cfg.sequence_length - C] = 1

\* the session was in a store when the request first synchronized
Resumed ==
    \E i \in SyncIdx :
        /\ \A k \in SyncIdx : i <= k
        /\ (trace[i].pre_engine.present \/ trace[i].pre_multitoken.present)

\* C34: within a request the prompt loses at most its leading token, and
\* only when the tokenizer is configured to add a BOS token and the session
\* is in the stores after synchronization; on a fresh session, or with a
\* tokenizer that adds no BOS token, the prompt keeps its length.
C34_BosStrippedOnceWhenResumed ==
    CachePath =>
        /\ pc \in {"chunks", "prefill_sync", "single"} => Len(tokens) >= req.n - 1
        /\ PrefillReturned =>
              /\ Len(PromptProcessed) >= req.n - 1
              /\ Len(PromptProcessed) < req.n =>
                    (cfg.add_bos_token = Some(TRUE) /\ Resumed)

\* the logits of the prompt that the request returns
ReturnedPromptLogits == IF req.include_prompt_logits THEN prompt_logits ELSE <<>>

\* C35: the logits a request returns are the logits of its generation
\* steps, one entry per step in step order, preceded by the logits of the
\* prefill exactly when include_prompt_logits is set; the logits of the last
\* cache-populating call are not among them.
C35_LogitsPerGenerateStep ==
    PrefillReturned =>
        LET p == Len(ReturnedPromptLogits)
            n == Len(generated_logits)
        IN  /\ n = p + Cardinality(GenIdx)
            /\ \A k \in 1..p :
                 /\ generated_logits[k] = prompt_logits[k]
                 /\ generated_logits[k] \in PrefillIdx
            /\ \A k \in (p + 1)..n : generated_logits[k] \in GenIdx
            /\ \A k \in (p + 1)..(n - 1) : generated_logits[k] < generated_logits[k + 1]
            /\ \A k \in 1..n : generated_logits[k] \notin FinalIdx

\* a finished request that did not ask for the prompt logits, whose prefill
\* made logits and which took two generation steps
C35_Witness ==
    /\ CachePath
    /\ pc = "done"
    /\ ~req.include_prompt_logits
    /\ Len(prompt_logits) >= 2
    /\ Cardinality(GenIdx) >= 2
    /\ Len(generated_logits) = 2

\* the array an engine expects for a declared name
ExpectedArray(name) ==
    IF name = "causal_mask"
    THEN [role |-> name, input_ids |-> "input_ids", attention_mask |-> "attention_mask"]
    ELSE [role |-> name, input_ids |-> "none", attention_mask |-> "none"]

\* C36: the list built for a prefill chunk or for a single-token step is
\* built without error and holds, for every declared subset and ordering of
\* the four roles, exactly one array per declared name, at the place of that
\* name the array of that role, the causal mask being made from the
\* input_ids and attention_mask of the same step, and nothing else.
C36_OneArrayPerDeclaredName ==
    ipc \in {"prefill", "autoregressive"} =>
        /\ engine_inputs.raised = "none"
        /\ Len(engine_inputs.tensors) = Len(onnx_input_names_no_cache)
        /\ \A k \in 1..Len(onnx_input_names_no_cache) :
             engine_inputs.tensors[k] = ExpectedArray(onnx_input_names_no_cache[k])

\* the workers of the request that have called their engine
WorkersDone == {j \in 1..Len(batch_outputs) : batch_outputs[j].done}

\* C37: in a request whose session ids passed validation or were generated,
\* no two sub-batches of split_engine_inputs carry the same session id, so no
\* two workers of the request run an engine under the same session.
C37_OneSessionPerSubBatch ==
    bpc \in {"running", "joined"} =>
        /\ \A j, k \in 1..Len(batches) :
             batches[j].session_id = batches[k].session_id => j = k
        /\ cfg.cache_support_enabled =>
             \A j, k \in WorkersDone :
                 batch_outputs[j].session_ids = batch_outputs[k].session_ids => j = k

\* two workers of a request with supplied ids have run
C37_Witness ==
    /\ bpc = "running"
    /\ cfg.cache_support_enabled
    /\ inputs.session_ids.kind = "list"
    /\ Len(batches) >= 3
    /\ Cardinality(WorkersDone) = 2

RECURSIVE CallInputTokens(_)
\* the tokens handed to the engines by the first k entries of the trace, in
\* call order
CallInputTokens(k) ==
    IF k = 0 THEN <<>>
    ELSE CallInputTokens(k - 1) \o (IF k \in CallIdx THEN trace[k].ids ELSE <<>>)

\* C38: at the end of a successful cache-enabled request the inputs of its
\* engine calls, in call order, are the final context: the prompt after the
\* BOS strip followed by every generated token, the last returned one
\* included, each token being the input of exactly one call.
C38_ContextFedOnce ==
    (CachePath /\ pc = "done") =>
        /\ tokens = PromptProcessed \o generated_tokens
        /\ CallInputTokens(Len(trace)) = tokens
        /\ \A i \in GenIdx \cup FinalIdx : Len(trace[i].ids) = 1

\* a finished request whose prompt went through a chunk and whose loop took
\* two steps
C38_Witness ==
    /\ CachePath
    /\ pc = "done"
    /\ MultiPrefillIdx # {}
    /\ Cardinality(GenIdx) >= 2
    /\ Len(tokens) >= 5

\* the session's entry in each store
EngineEntry == kv_cache_storage["engine"][session_id]
MultitokenEntry == kv_cache_storage["multitoken_engine"][session_id]

\* C39: within a request no call of the multitoken engine follows a call of
\* the single-token engine, and the last call of a successful cache-enabled
\* request is made on the single-token engine; when the request ends the
\* single-token store's entry is strictly newer than the multitoken store's,
\* or the multitoken store has no entry.
C39_SingleTokenEngineLast ==
    CachePath =>
        /\ \A i, j \in CallIdx :
             (i < j /\ trace[i].eng = "engine") => trace[j].eng = "engine"
        /\ pc = "done" =>
             /\ CallIdx # {}
             /\ trace[Len(trace)].kind = "call"
             /\ trace[Len(trace)].eng = "engine"
             /\ EngineEntry.present
             /\ \/ ~MultitokenEntry.present
                \/ EngineEntry.timestamp > MultitokenEntry.timestamp

\* a finished request on a session both stores hold, after chunk calls
C39_Witness ==
    /\ CachePath
    /\ pc = "done"
    /\ MultiPrefillIdx # {}
    /\ MultitokenEntry.present
    /\ MultitokenEntry.timestamp >= 2
    /\ EngineEntry.timestamp > MultitokenEntry.timestamp

====
